---- MODULE Spec2Model ----
(***************************************************************************)
(* fmmd - fix music metadata (src/src/main.rs).                            *)
(*                                                                         *)
(* The program walks the list of paths given on the command line and, for  *)
(* every path that exists, reads the ID3 tag, derives a file name from the *)
(* track number and the title, optionally prints a preview line and        *)
(* renames the file.  The model keeps                                      *)
(*   - the parsed command line (files, dry_run, verbose),                  *)
(*   - the directory tree as a function from paths to file contents,       *)
(*   - the position of the for loop of main and the process status,        *)
(*   - the ordered trace of the observable operations of the process       *)
(*     (calls of rename_file, tag reads, lines on standard output and      *)
(*     standard error, rename system calls, a panic),                      *)
(*   - the outcome of every loop iteration.                                *)
(* Text is modelled as sequences of one-character strings, so that the     *)
(* path and number formatting of get_filename is computed, not assumed.    *)
(* An Option<T> is a sequence of length 0 (None) or 1 (Some).              *)
(* Not modelled: the colour escape codes of the error line, paths that     *)
(* are not valid UTF-8, and changes made to the disk by other processes.   *)
(***************************************************************************)
EXTENDS Integers, Sequences, FiniteSets, TLC

VARIABLES
    files,      \* Cli.files: the ordered list of paths
    dry_run,    \* Cli.dry_run
    verbose,    \* Cli.verbose
    fs,         \* the disk: existing path -> [data, tag]
    fs0,        \* the disk when the process started (history)
    i,          \* position of the for loop of main, 1-based
    pc,         \* "loop", "done" (main returned) or "panicked"
    log,        \* trace of observable operations, in program order
    results,    \* results[k]: outcome of the iteration for files[k]
    gf_tag,     \* argument tag of the get_filename call under test
    gf_file,    \* argument file of the get_filename call under test
    gf_ret      \* its return value

vars == <<files, dry_run, verbose, fs, fs0, i, pc, log, results,
          gf_tag, gf_file, gf_ret>>

----------------------------------------------------------------------------
(* Bounds *)

\* Longest command line (number of paths in Cli.files).
MaxFiles == 2

\* Largest track number drawn for the get_filename call under test.
MaxTrack == 123

----------------------------------------------------------------------------
(* Text *)

DigitChars == <<"0", "1", "2", "3", "4", "5", "6", "7", "8", "9">>

\* Display of an unsigned integer: its decimal digits, no sign, no padding.
RECURSIVE ToDecimal(_)
ToDecimal(n) ==
    IF n < 10 THEN <<DigitChars[n + 1]>>
    ELSE ToDecimal(n \div 10) \o <<DigitChars[(n % 10) + 1]>>

\* A formatter that treats the width as a maximum as well: it keeps the last
\* w characters of a longer text.
PadLeftZero_truncating(s, w) ==
    IF Len(s) >= w THEN SubSeq(s, Len(s) - w + 1, Len(s))
    ELSE [k \in 1..(w - Len(s)) |-> "0"] \o s

\* format!("{:0>w}", s): right-aligned, filled with '0' on the left up to
\* width w; a longer text is never truncated.
PadLeftZero(s, w) ==
    IF Len(s) >= w THEN s
    ELSE [k \in 1..(w - Len(s)) |-> "0"] \o s

\* Option helpers.
None == <<>>
Some(x) == <<x>>
unwrap_or(opt, dflt) == IF opt = None THEN dflt ELSE opt[1]

----------------------------------------------------------------------------
(* std::path *)

\* Position of the last occurrence of character c in s, 0 when there is none.
LastIndexOf(s, c) ==
    LET hits == {k \in 1..Len(s) : s[k] = c}
    IN  IF hits = {} THEN 0 ELSE CHOOSE k \in hits : \A h \in hits : h <= k

\* Path::file_name: the last component (paths of the model carry no
\* trailing separator and no ".." component); None for "" and "/".
file_name(p) ==
    LET k == LastIndexOf(p, "/")
    IN  IF k = Len(p) THEN None ELSE Some(SubSeq(p, k + 1, Len(p)))

\* Path::parent: the path without its last component; None for the root and
\* for the empty path, Some("") for a bare file name.
parent(p) ==
    LET k == LastIndexOf(p, "/")
    IN  IF p = <<>> \/ p = <<"/">> THEN None
        ELSE IF k = 0 THEN Some(<<>>)
        ELSE IF k = 1 THEN Some(<<"/">>)
        ELSE Some(SubSeq(p, 1, k - 1))

\* Path::extension: the part of the file name after its last '.'; None when
\* there is no file name, no '.', or the only '.' is the first character.
extension(p) ==
    LET fname == file_name(p)
    IN  IF fname = None THEN None
        ELSE LET n == fname[1]
                 k == LastIndexOf(n, ".")
             IN  IF k <= 1 THEN None ELSE Some(SubSeq(n, k + 1, Len(n)))

\* Path::join for a relative second argument: a separator is inserted unless
\* the base is empty or already ends with one.
join(base, name) ==
    IF name # <<>> /\ name[1] = "/" THEN name
    ELSE IF base = <<>> \/ base[Len(base)] = "/" THEN base \o name
    ELSE base \o <<"/">> \o name

----------------------------------------------------------------------------
(* FmmdError and results *)

FmmdError == {"FileParse", "FileRename", "NotEnoughMetadata"}

\* #[error(...)]: the message each error displays.
Display(error) ==
    CASE error = "FileParse" -> "Could not parse the file"
      [] error = "FileRename" -> "Could not rename the file"
      [] error = "NotEnoughMetadata" ->
             "Could not find enough information in the file to rename it"

\* A return value of get_filename: Ok(path), Err(error) or a panic of unwrap.
RetOk(p) == [kind |-> "Ok", path |-> p, error |-> "none"]
RetErr(e) == [kind |-> "Err", path |-> <<>>, error |-> e]
RetPanic == [kind |-> "Panic", path |-> <<>>, error |-> "none"]

----------------------------------------------------------------------------
(* get_filename *)

\* A variant that refuses only a tag whose two frames are both absent, and
\* takes an empty title or a track number 0 for metadata.
get_filename_absent_only(tag, file) ==
    LET title == unwrap_or(tag.title, <<>>)
        track == unwrap_or(tag.track, 0)
    IN  IF tag.title = None /\ tag.track = None THEN RetErr("NotEnoughMetadata")
        ELSE IF parent(file) = None THEN RetPanic
        ELSE IF extension(file) = None THEN RetPanic
        ELSE RetOk(join(parent(file)[1],
                        PadLeftZero(ToDecimal(track), 2) \o <<"-">> \o title
                            \o <<".">> \o extension(file)[1]))

get_filename(tag, file) ==
    LET title == unwrap_or(tag.title, <<>>)
        track == unwrap_or(tag.track, 0)
    IN  IF title = <<>> /\ track = 0 THEN RetErr("NotEnoughMetadata")
        ELSE IF parent(file) = None THEN RetPanic
        ELSE IF extension(file) = None THEN RetPanic
        ELSE RetOk(join(parent(file)[1],
                        PadLeftZero(ToDecimal(track), 2) \o <<"-">> \o title
                            \o <<".">> \o extension(file)[1]))

----------------------------------------------------------------------------
(* The disk and the system calls *)

\* A gate that lets every path through.
exists_always(disk, file) == TRUE

\* Path::exists.
exists(disk, file) == file \in DOMAIN disk

\* Tag::read_from_path: the tag of the file, or an error when the file cannot
\* be opened or holds no well-formed tag.
read_from_path(disk, file) ==
    IF file \in DOMAIN disk /\ disk[file].tag.parses
    THEN [ok |-> TRUE, tag |-> disk[file].tag]
    ELSE [ok |-> FALSE, tag |-> [parses |-> FALSE, title |-> None, track |-> None]]

\* fs::rename(from, to).  io_ok is the answer of the operating system
\* (permissions, read-only volume, ...).  A successful rename moves the content
\* of from to to, replacing whatever was there; renaming a path to itself
\* changes nothing; a failed rename leaves the disk as it was.
fs_rename(disk, from, to, io_ok) ==
    IF ~io_ok \/ from \notin DOMAIN disk THEN [ok |-> FALSE, disk |-> disk]
    ELSE IF from = to THEN [ok |-> TRUE, disk |-> disk]
    ELSE [ok |-> TRUE,
          disk |-> [p \in (DOMAIN disk \ {from}) \cup {to} |->
                       IF p = to THEN disk[from] ELSE disk[p]]]

----------------------------------------------------------------------------
(* Trace events *)

Ev(kind, path, to, ok, text) ==
    [kind |-> kind, path |-> path, to |-> to, ok |-> ok, text |-> text]

EvCall(file) == Ev("call", file, <<>>, TRUE, <<>>)
EvRead(file, ok) == Ev("read_tag", file, <<>>, ok, <<>>)
\* println!("{} -> {}", file, new_file)
EvStdout(file, new_file) ==
    Ev("stdout", file, new_file, TRUE, file \o <<" ", "-", ">", " ">> \o new_file)
\* fs::rename(file, new_file); text names the content that from held
EvRename(file, new_file, ok, data) == Ev("rename", file, new_file, ok, data)
\* eprintln!("{}: \"{}\"", error, file)
EvStderr(error, file) == Ev("stderr", file, <<>>, FALSE, <<Display(error)>>)
\* the message of the panic handler
EvPanic(file) == Ev("panic", file, <<>>, FALSE, <<>>)

----------------------------------------------------------------------------
(* rename_file *)

\* The value of a call: what it returned ("Ok", an FmmdError or "Panic"),
\* the operations it performed, and the disk it left.
Outcome(ret, events, disk) == [ret |-> ret, events |-> events, disk |-> disk]

\* Variants of rename_file, each with one slip.
\* (1) the test of the result of fs::rename is inverted;
rename_file_inverted(file, dry, verb, disk, io_ok) ==
    LET rd == read_from_path(disk, file)
        new_file == get_filename(rd.tag, file)
        preview == IF dry \/ verb THEN <<EvStdout(file, new_file.path)>> ELSE <<>>
        mv == fs_rename(disk, file, new_file.path, io_ok)
    IN  IF ~rd.ok
        THEN Outcome("FileParse", <<EvCall(file), EvRead(file, FALSE)>>, disk)
        ELSE IF new_file.kind = "Err"
        THEN Outcome(new_file.error, <<EvCall(file), EvRead(file, TRUE)>>, disk)
        ELSE IF new_file.kind = "Panic"
        THEN Outcome("Panic",
                     <<EvCall(file), EvRead(file, TRUE), EvPanic(file)>>, disk)
        ELSE IF dry
        THEN Outcome("Ok", <<EvCall(file), EvRead(file, TRUE)>> \o preview, disk)
        ELSE Outcome(IF mv.ok THEN "FileRename" ELSE "Ok",
                     <<EvCall(file), EvRead(file, TRUE)>> \o preview
                         \o <<EvRename(file, new_file.path, mv.ok, disk[file].data)>>,
                     mv.disk)

\* (2) the early return of a dry run is missing;
rename_file_no_dry_return(file, dry, verb, disk, io_ok) ==
    LET rd == read_from_path(disk, file)
        new_file == get_filename(rd.tag, file)
        preview == IF dry \/ verb THEN <<EvStdout(file, new_file.path)>> ELSE <<>>
        mv == fs_rename(disk, file, new_file.path, io_ok)
    IN  IF ~rd.ok
        THEN Outcome("FileParse", <<EvCall(file), EvRead(file, FALSE)>>, disk)
        ELSE IF new_file.kind = "Err"
        THEN Outcome(new_file.error, <<EvCall(file), EvRead(file, TRUE)>>, disk)
        ELSE IF new_file.kind = "Panic"
        THEN Outcome("Panic",
                     <<EvCall(file), EvRead(file, TRUE), EvPanic(file)>>, disk)
        ELSE Outcome(IF mv.ok THEN "Ok" ELSE "FileRename",
                     <<EvCall(file), EvRead(file, TRUE)>> \o preview
                         \o <<EvRename(file, new_file.path, mv.ok, disk[file].data)>>,
                     mv.disk)

\* (3) the preview line is printed after the rename instead of before it;
rename_file_print_after(file, dry, verb, disk, io_ok) ==
    LET rd == read_from_path(disk, file)
        new_file == get_filename(rd.tag, file)
        preview == IF dry \/ verb THEN <<EvStdout(file, new_file.path)>> ELSE <<>>
        mv == fs_rename(disk, file, new_file.path, io_ok)
    IN  IF ~rd.ok
        THEN Outcome("FileParse", <<EvCall(file), EvRead(file, FALSE)>>, disk)
        ELSE IF new_file.kind = "Err"
        THEN Outcome(new_file.error, <<EvCall(file), EvRead(file, TRUE)>>, disk)
        ELSE IF new_file.kind = "Panic"
        THEN Outcome("Panic",
                     <<EvCall(file), EvRead(file, TRUE), EvPanic(file)>>, disk)
        ELSE IF dry
        THEN Outcome("Ok", <<EvCall(file), EvRead(file, TRUE)>> \o preview, disk)
        ELSE Outcome(IF mv.ok THEN "Ok" ELSE "FileRename",
                     <<EvCall(file), EvRead(file, TRUE)>>
                         \o <<EvRename(file, new_file.path, mv.ok, disk[file].data)>>
                         \o preview,
                     mv.disk)

\* (4) a target that already exists is refused without calling fs::rename.
rename_file_guarded(file, dry, verb, disk, io_ok) ==
    LET rd == read_from_path(disk, file)
        new_file == get_filename(rd.tag, file)
        preview == IF dry \/ verb THEN <<EvStdout(file, new_file.path)>> ELSE <<>>
        mv == fs_rename(disk, file, new_file.path, io_ok)
    IN  IF ~rd.ok
        THEN Outcome("FileParse", <<EvCall(file), EvRead(file, FALSE)>>, disk)
        ELSE IF new_file.kind = "Err"
        THEN Outcome(new_file.error, <<EvCall(file), EvRead(file, TRUE)>>, disk)
        ELSE IF new_file.kind = "Panic"
        THEN Outcome("Panic",
                     <<EvCall(file), EvRead(file, TRUE), EvPanic(file)>>, disk)
        ELSE IF dry
        THEN Outcome("Ok", <<EvCall(file), EvRead(file, TRUE)>> \o preview, disk)
        ELSE IF exists(disk, new_file.path)
        THEN Outcome("FileRename",
                     <<EvCall(file), EvRead(file, TRUE)>> \o preview, disk)
        ELSE Outcome(IF mv.ok THEN "Ok" ELSE "FileRename",
                     <<EvCall(file), EvRead(file, TRUE)>> \o preview
                         \o <<EvRename(file, new_file.path, mv.ok, disk[file].data)>>,
                     mv.disk)

rename_file(file, dry, verb, disk, io_ok) ==
    LET rd == read_from_path(disk, file)
        new_file == get_filename(rd.tag, file)
        preview == IF dry \/ verb THEN <<EvStdout(file, new_file.path)>> ELSE <<>>
        mv == fs_rename(disk, file, new_file.path, io_ok)
    IN  IF ~rd.ok
        THEN Outcome("FileParse", <<EvCall(file), EvRead(file, FALSE)>>, disk)
        ELSE IF new_file.kind = "Err"
        THEN Outcome(new_file.error, <<EvCall(file), EvRead(file, TRUE)>>, disk)
        ELSE IF new_file.kind = "Panic"
        THEN Outcome("Panic",
                     <<EvCall(file), EvRead(file, TRUE), EvPanic(file)>>, disk)
        ELSE IF dry
        THEN Outcome("Ok", <<EvCall(file), EvRead(file, TRUE)>> \o preview, disk)
        ELSE Outcome(IF mv.ok THEN "Ok" ELSE "FileRename",
                     <<EvCall(file), EvRead(file, TRUE)>> \o preview
                         \o <<EvRename(file, new_file.path, mv.ok, disk[file].data)>>,
                     mv.disk)

----------------------------------------------------------------------------
(* main *)

\* One iteration of the for loop: the exists gate, the call and the report.
loop_body(file, dry, verb, disk, io_ok) ==
    IF exists(disk, file)
    THEN LET r == rename_file(file, dry, verb, disk, io_ok)
         IN  IF r.ret \in FmmdError
             THEN Outcome(r.ret, r.events \o <<EvStderr(r.ret, file)>>, r.disk)
             ELSE r
    ELSE Outcome("Skipped", <<>>, disk)

\* Paths that may be on disk and on the command line: two ordinary files, a
\* file that already carries a derived name, and a file without extension.
P_a == <<"d", "/", "a", ".", "m">>
P_b == <<"d", "/", "b", ".", "m">>
P_t == <<"d", "/", "0", "5", "-", "T", ".", "m">>
P_c == <<"d", "/", "c">>
DiskPaths == {P_a, P_b, P_t, P_c}

Tag(parses, title, track) == [parses |-> parses, title |-> title, track |-> track]
Unparsable == Tag(FALSE, None, None)
NoFrames == Tag(TRUE, None, None)
ZeroTag == Tag(TRUE, Some(<<>>), Some(0))
GoodTag == Tag(TRUE, Some(<<"T">>), Some(5))
TitleOnly == Tag(TRUE, Some(<<"T">>), None)
DiskTags == {Unparsable, NoFrames, ZeroTag, GoodTag, TitleOnly}

\* The tags each path is tried with.
TagsAt(p) ==
    IF p = P_a THEN DiskTags
    ELSE IF p = P_b THEN {Unparsable, ZeroTag, GoodTag}
    ELSE IF p = P_t THEN {Unparsable, GoodTag, TitleOnly}
    ELSE {NoFrames, GoodTag}

NotCalled == [kind |-> "NotCalled", path |-> <<>>, error |-> "none"]

CmdLines == UNION {[1..n -> DiskPaths] : n \in 0..MaxFiles}

Init ==
    /\ files \in CmdLines
    /\ dry_run \in BOOLEAN
    /\ verbose \in BOOLEAN
    /\ \E present \in SUBSET DiskPaths :
         \E t \in [present -> DiskTags] :
            /\ \A p \in present : t[p] \in TagsAt(p)
            /\ fs = [p \in present |-> [data |-> p, tag |-> t[p]]]
    /\ fs0 = fs
    /\ i = 1
    /\ pc = "loop"
    /\ log = <<>>
    /\ results = <<>>
    /\ gf_tag = Unparsable
    /\ gf_file = <<>>
    /\ gf_ret = NotCalled

\* for file in &cli.files { ... }: one iteration.  A panic unwinds main.
Iterate ==
    /\ pc = "loop"
    /\ i <= Len(files)
    /\ \E io_ok \in BOOLEAN :
         LET r == loop_body(files[i], dry_run, verbose, fs, io_ok)
         IN  /\ fs' = r.disk
             /\ log' = log \o r.events
             /\ results' = Append(results, r.ret)
             /\ pc' = IF r.ret = "Panic" THEN "panicked" ELSE "loop"
             /\ i' = IF r.ret = "Panic" THEN i ELSE i + 1
    /\ UNCHANGED <<files, dry_run, verbose, fs0, gf_tag, gf_file, gf_ret>>

\* The loop is exhausted: main returns and the process exits with status 0.
Return ==
    /\ pc = "loop"
    /\ i > Len(files)
    /\ pc' = "done"
    /\ UNCHANGED <<files, dry_run, verbose, fs, fs0, i, log, results,
                   gf_tag, gf_file, gf_ret>>

Next == Iterate \/ Return

Spec == Init /\ [][Next]_vars

----------------------------------------------------------------------------
(* get_filename on its own: the call under test *)

F_bare == <<"a", ".", "m">>
F_root == <<"/", "a", ".", "m">>
F_deep == <<"d", "/", "e", "/", "x", ".", "y", ".", "m", "p">>
F_hidden == <<"d", "/", ".", "m">>
F_dot == <<"d", "/", "a", ".">>
F_slash == <<"/">>
FnPaths == {P_a, P_c, F_bare, F_root, F_deep, F_hidden, F_dot, F_slash}

FnTitles == {None, Some(<<>>), Some(<<"T">>), Some(<<"a", "-", "b", ".", "c">>)}
FnTracks == {None} \cup {Some(n) : n \in 0..MaxTrack}

InitFn ==
    /\ files = <<>>
    /\ dry_run = FALSE
    /\ verbose = FALSE
    /\ fs = [p \in {} |-> [data |-> p, tag |-> Unparsable]]
    /\ fs0 = fs
    /\ i = 1
    /\ pc = "test"
    /\ log = <<>>
    /\ results = <<>>
    /\ gf_tag \in {Tag(TRUE, t, n) : t \in FnTitles, n \in FnTracks}
    /\ gf_file \in FnPaths
    /\ gf_ret = NotCalled

CallGetFilename ==
    /\ pc = "test"
    /\ gf_ret = NotCalled
    /\ gf_ret' = get_filename(gf_tag, gf_file)
    /\ UNCHANGED <<files, dry_run, verbose, fs, fs0, i, pc, log, results,
                   gf_tag, gf_file>>

NextFn == CallGetFilename

SpecFn == InitFn /\ [][NextFn]_vars

----------------------------------------------------------------------------
(* Vocabulary of the properties *)

\* The tag carries a non-empty title or a non-zero track number.
HasEnough(tag) ==
    \/ (tag.title # None /\ tag.title[1] # <<>>)
    \/ (tag.track # None /\ tag.track[1] # 0)

\* The tag carries a non-empty title and a non-zero track number.
HasBoth(tag) ==
    /\ (tag.title # None /\ tag.title[1] # <<>>)
    /\ (tag.track # None /\ tag.track[1] # 0)

\* Reading a decimal numeral back.
DigitValue(c) == CHOOSE d \in 0..9 : DigitChars[d + 1] = c
IsDigit(c) == \E d \in 0..9 : DigitChars[d + 1] = c
RECURSIVE DecimalValue(_)
DecimalValue(s) ==
    IF s = <<>> THEN 0
    ELSE 10 * DecimalValue(SubSeq(s, 1, Len(s) - 1)) + DigitValue(s[Len(s)])

FirstIndexOf(s, c) ==
    LET hits == {k \in 1..Len(s) : s[k] = c}
    IN  IF hits = {} THEN 0 ELSE CHOOSE k \in hits : \A h \in hits : k <= h

\* The directory prefix of a derived path: the parent, and a separator unless
\* the parent is empty or is the root.
DirPrefix(file) ==
    LET par == parent(file)[1]
    IN  IF par = <<>> \/ par = <<"/">> THEN par ELSE par \o <<"/">>

----------------------------------------------------------------------------
(* C4 *)

----------------------------------------------------------------------------
(* C9 *)

\* C9: get_filename creates a new file name only when the tag supplies both
\* the title and the track number; a tag lacking either one produces none.
C9_NeedsBothFields ==
    gf_ret.kind = "Ok" => HasBoth(gf_tag)

----------------------------------------------------------------------------
(* Vocabulary of the properties about a run *)

Count(evs, kind) == Cardinality({k \in DOMAIN evs : evs[k].kind = kind})

\* The operations performed by the step under consideration.
NewEvents == SubSeq(log', Len(log) + 1, Len(log'))

\* The step is one iteration of the loop of main; Ret is its outcome.
IsIteration == pc = "loop" /\ i <= Len(files) /\ Len(results') = Len(results) + 1
Ret == results'[Len(results')]

\* The tag of the file parses; it parses and a name can be derived from it.
Parses(disk, file) == file \in DOMAIN disk /\ disk[file].tag.parses
Derivable(disk, file) ==
    /\ Parses(disk, file)
    /\ HasEnough(disk[file].tag)
    /\ parent(file) # None
    /\ extension(file) # None

\* The paths of files[1..k] whose iteration was not a skip, in order.
RECURSIVE HandledPaths(_)
HandledPaths(k) ==
    IF k = 0 THEN <<>>
    ELSE IF results[k] = "Skipped" THEN HandledPaths(k - 1)
    ELSE Append(HandledPaths(k - 1), files[k])

\* The paths of the rename_file calls of the trace, in order.
RECURSIVE CallPaths(_)
CallPaths(evs) ==
    IF evs = <<>> THEN <<>>
    ELSE IF evs[Len(evs)].kind = "call"
    THEN Append(CallPaths(SubSeq(evs, 1, Len(evs) - 1)), evs[Len(evs)].path)
    ELSE CallPaths(SubSeq(evs, 1, Len(evs) - 1))

----------------------------------------------------------------------------
(* C1 *)

\* C1: a run with dry_run set issues no rename call and leaves the disk as it
\* was, and each file whose tag parses and has enough metadata is reported as
\* success (no error line).
C1_DryRunSucceeds ==
    dry_run =>
        /\ fs = fs0
        /\ Count(log, "rename") = 0
        /\ \A k \in DOMAIN results :
              (Parses(fs0, files[k]) /\ HasEnough(fs0[files[k]].tag))
                  => results[k] = "Ok"

----------------------------------------------------------------------------
(* C2 *)

\* C2: no per-file outcome (FileParse, NotEnoughMetadata, FileRename, success,
\* missing path, path without a file extension) ends the run: the process
\* never aborts, and when main returns every path of the list has been
\* visited and every path that existed when it was reached has been handed to
\* rename_file exactly once, in input order.
C2_NoErrorEndsRun ==
    /\ pc # "panicked"
    /\ CallPaths(log) = HandledPaths(Len(results))
    /\ pc = "done" => Len(results) = Len(files)

----------------------------------------------------------------------------
(* C3 *)

\* C3: a rename call is issued for a file only if the tag of that file parsed
\* and has a non-empty title or a non-zero track; a file whose tag has an
\* empty or absent title and a track 0 or absent yields NotEnoughMetadata and
\* no rename call.
C3_RenameNeedsMetadata ==
    [][IsIteration =>
        LET evs == NewEvents
            file == files[i]
        IN  /\ \A k \in DOMAIN evs :
                  evs[k].kind = "rename" =>
                      /\ evs[k].path = file
                      /\ Parses(fs, file)
                      /\ HasEnough(fs[file].tag)
            /\ (Parses(fs, file) /\ ~HasEnough(fs[file].tag)) =>
                  /\ Ret = "NotEnoughMetadata"
                  /\ Count(evs, "rename") = 0]_vars

\* One file was renamed and the next one had a tag with an empty title and
\* track 0.
C3_Witness ==
    /\ ~dry_run
    /\ files = <<P_a, P_b>>
    /\ P_b \in DOMAIN fs0
    /\ fs0[P_b].tag = ZeroTag
    /\ results = <<"Ok", "NotEnoughMetadata">>
    /\ Count(log, "rename") = 1

----------------------------------------------------------------------------
(* C5 *)

\* C5: whenever rename_file returns FileParse, NotEnoughMetadata or FileRename
\* for a file, the disk is as it was before the file was handled (the file at
\* its original path with its content, nothing created, removed or
\* overwritten) and exactly one error line, naming the original path, is
\* written to standard error.
C5_FailureLeavesDisk ==
    [][(IsIteration /\ Ret \in FmmdError) =>
        LET evs == NewEvents
            file == files[i]
        IN  /\ fs' = fs
            /\ file \in DOMAIN fs'
            /\ Count(evs, "stderr") = 1
            /\ \A k \in DOMAIN evs :
                  evs[k].kind = "stderr" =>
                      /\ evs[k].path = file
                      /\ evs[k].text = <<Display(Ret)>>
                      /\ k = Len(evs)]_vars

\* A rename that the operating system refused, after a file that did not
\* parse: two error lines, the disk untouched.
C5_Witness ==
    /\ results = <<"FileParse", "FileRename">>
    /\ Count(log, "stderr") = 2
    /\ Count(log, "rename") = 1
    /\ fs = fs0

----------------------------------------------------------------------------
(* C6 *)

\* C6 (as stated): for every existing input file handled by rename_file,
\* exactly one rename call is made, unconditionally.
C6_ExactlyOneRename ==
    Count(log, "rename") = Count(log, "call")

\* C6 (amended): for every existing input file handled by rename_file at most
\* one rename call is made: exactly one when dry_run is unset, the tag parses
\* and a new name is derived from it, none otherwise.
C6_AtMostOneRename ==
    [][(IsIteration /\ files[i] \in DOMAIN fs) =>
        LET evs == NewEvents
            file == files[i]
        IN  /\ Count(evs, "call") = 1
            /\ Count(evs, "rename") <= 1
            /\ Count(evs, "rename") = 1 <=> (~dry_run /\ Derivable(fs, file))]_vars

\* A run that renamed one file and made no rename call for the other.
C6_Witness ==
    /\ ~dry_run
    /\ results = <<"Ok", "FileParse">>
    /\ Count(log, "call") = 2
    /\ Count(log, "rename") = 1

----------------------------------------------------------------------------
(* C7 *)

\* C7: for every file the line "<original> -> <new>" is written to standard
\* output exactly when dry_run or verbose is set and the file name was
\* derived, at most once, and before the rename call for that file; with
\* verbose set and dry_run unset the line is printed and the rename is then
\* performed; with both flags unset nothing is written to standard output.
C7_PreviewLine ==
    [][IsIteration =>
        LET evs == NewEvents
            file == files[i]
        IN  /\ Count(evs, "stdout") =
                  IF (dry_run \/ verbose) /\ Derivable(fs, file) THEN 1 ELSE 0
            /\ \A k \in DOMAIN evs :
                  evs[k].kind = "stdout" =>
                      /\ evs[k].path = file
                      /\ evs[k].text = file \o <<" ", "-", ">", " ">> \o evs[k].to
                      /\ \A m \in DOMAIN evs : evs[m].kind = "rename" =>
                            (k < m /\ evs[m].to = evs[k].to)
            /\ (verbose /\ ~dry_run /\ Derivable(fs, file)) =>
                  Count(evs, "rename") = 1
            /\ (~dry_run /\ ~verbose) => Count(log', "stdout") = 0]_vars

\* A verbose run that is not a dry run: the line, then the rename.
C7_Witness ==
    /\ verbose
    /\ ~dry_run
    /\ \E k \in DOMAIN log :
          /\ k < Len(log)
          /\ log[k].kind = "stdout"
          /\ log[k + 1].kind = "rename"
          /\ log[k + 1].ok
          /\ log[k].text = P_a \o <<" ", "-", ">", " ">> \o P_t

----------------------------------------------------------------------------
(* C8 *)

\* C8: for every path of the list that does not exist when the loop reaches
\* it, the iteration reads no tag, issues no rename, writes nothing, leaves
\* the disk unchanged and goes on to the next path.
C8_MissingSkipped ==
    [][(pc = "loop" /\ i <= Len(files) /\ files[i] \notin DOMAIN fs) =>
        /\ log' = log
        /\ fs' = fs
        /\ i' = i + 1
        /\ pc' = "loop"
        /\ Ret = "Skipped"]_vars

\* A path listed twice: renamed away at its first occurrence, skipped at its
\* second.
C8_Witness ==
    /\ files = <<P_a, P_a>>
    /\ results = <<"Ok", "Skipped">>
    /\ P_a \notin DOMAIN fs
    /\ Count(log, "call") = 1
    /\ pc = "done"

----------------------------------------------------------------------------
(* C10 *)

IsMove(e) == e.kind = "rename" /\ e.ok /\ e.path # e.to

\* No successful rename after position b moves a file onto or away from t.
Untouched(b, t) ==
    \A c \in DOMAIN log :
        (c > b /\ IsMove(log[c])) => (log[c].to # t /\ log[c].path # t)

\* Every file for which a name was derived in a non-dry run got its rename
\* call, whatever is at the target.
RenameAlwaysIssued ==
    ~dry_run =>
        Count(log, "rename") =
            Cardinality({k \in DOMAIN results : results[k] \in {"Ok", "FileRename"}})

\* C10 (as stated): when two existing input files derive the same target,
\* both renames are issued in input order and, where the renames succeed, the
\* target ends up holding the later file's content, the earlier file's
\* content being gone.
C10_LaterFileWins ==
    /\ RenameAlwaysIssued
    /\ \A a, b \in DOMAIN log :
          (/\ a < b
           /\ log[a].kind = "rename" /\ log[a].ok
           /\ log[b].kind = "rename" /\ log[b].ok
           /\ log[a].to = log[b].to
           /\ log[a].path # log[b].path
           /\ log[a].path \in DOMAIN fs0
           /\ log[b].path \in DOMAIN fs0
           /\ Untouched(b, log[b].to))
          => /\ log[b].to \in DOMAIN fs
             /\ fs[log[b].to].data = fs0[log[b].path].data
             /\ \A p \in DOMAIN fs : fs[p].data # fs0[log[a].path].data

\* C10 (amended): in a non-dry run the rename is issued without any check of
\* the target.  When renames of two different paths to the same target are
\* issued in input order and both succeed, and the later path is not the
\* target itself, then (until another rename touches the target) the target
\* holds the content the later rename moved, no other path holds it, and the
\* content the earlier rename left at the target is gone.  When the later path
\* is the target itself its rename changes nothing and the target keeps the
\* content the earlier rename moved there.
C10_LastWriterWins ==
    /\ RenameAlwaysIssued
    /\ \A a, b \in DOMAIN log :
          (/\ a < b
           /\ log[a].kind = "rename" /\ log[a].ok
           /\ IsMove(log[b])
           /\ log[a].to = log[b].to
           /\ log[a].path # log[b].path
           /\ Untouched(b, log[b].to))
          => /\ log[b].to \in DOMAIN fs
             /\ fs[log[b].to].data = log[b].text
             /\ \A p \in DOMAIN fs : fs[p].data = log[b].text => p = log[b].to
             /\ \A p \in DOMAIN fs : fs[p].data # log[a].text
    /\ \A a, b \in DOMAIN log :
          (/\ a < b
           /\ IsMove(log[a])
           /\ log[b].kind = "rename" /\ log[b].ok
           /\ log[a].to = log[b].to
           /\ log[b].path = log[b].to
           /\ Untouched(a, log[b].to))
          => /\ log[b].to \in DOMAIN fs
             /\ fs[log[b].to].data = log[a].text
             /\ log[b].text = log[a].text

\* Two files with the same tag: the second rename replaced the first file.
C10_Witness ==
    /\ files = <<P_a, P_b>>
    /\ Len(log) = 6
    /\ IsMove(log[3]) /\ log[3].path = P_a /\ log[3].to = P_t
    /\ IsMove(log[6]) /\ log[6].path = P_b /\ log[6].to = P_t
    /\ P_t \in DOMAIN fs0
    /\ DOMAIN fs \cap {P_a, P_b, P_t} = {P_t}
    /\ fs[P_t].data = P_b

====
